---- MODULE Spec2Model ----
(***************************************************************************)
(* Model of the space-colonization engine of src/src/lib.rs.               *)
(*                                                                         *)
(* The engine is generic over the point type P.  The model instantiates it *)
(* with one-dimensional points whose coordinates are small integers, on    *)
(* which f32 arithmetic is exact: the squared distance of two points is    *)
(* (a - b)^2, and normalising a vector v yields v / sqrt(v * v), which is  *)
(* +1 or -1, or NaN (0.0 / 0.0) for the zero vector.  NaN is carried as a  *)
(* distinguished value outside the range of the coordinates: it           *)
(* propagates through arithmetic and every ordered comparison with it is   *)
(* false, as in IEEE 754.                                                  *)
(*                                                                         *)
(* Option<T> is a sequence: <<>> is None and <<x>> is Some(x).             *)
(* NodeIdx values are the 0-based indices of the source; the arena is a    *)
(* TLA+ sequence, so the node with index i is nodes[i + 1].                *)
(***************************************************************************)
EXTENDS Integers, Sequences, FiniteSets, TLC

VARIABLES
    nodes,           \* self.nodes: the node arena
    attractors,      \* self.attractors
    next_iteration,  \* self.next_iteration
    max_length,      \* self.max_length
    max_branches,    \* self.max_branches
    move_dist,       \* self.move_dist
    default_attract_dist,  \* self.default_attract_dist
    default_connect_dist,  \* self.default_connect_dist
    ret,             \* the last call and the value it returned
    events,          \* history: what each attractor did in the last step
    next_id,         \* history: number of attractors added so far
    killed,          \* history: ids of the attractors removed so far
    lastContact,     \* history: <<id, iteration, root>> of each attractor's last contact
    connected,       \* history: <<id, root>> of every DisableForConnectingRoot contact
    roots            \* history: the indices add_root_node* returned

vars == << nodes, attractors, next_iteration, max_length, max_branches,
           move_dist, default_attract_dist, default_connect_dist, ret,
           events, next_id, killed, lastContact, connected, roots >>

----------------------------------------------------------------------------
(* Bounds of the model                                                     *)

MaxRoots == 2
MaxAttractors == 2
MaxIter == 4

(* Inputs the callers are modelled to pass                                 *)

None == <<>>
Some(x) == <<x>>

RootPositions == {0, 1}
InformedRootPositions == {1}
AttractorPositions == {2}
DefaultAttractorPositions == {0, 2}
AttractDists == {9}
ConnectDists == {4}
Strengths == {1}
DisableIterations == {1, 2}
MaxLengths == {2}
MaxBranchess == {2}
MoveDists == {1}
DefaultAttractDists == {4}
DefaultConnectDists == {1}
RootInformations == {<<7>>}
ActiveFroms == {0}
NotForRoots == {<<>>}

----------------------------------------------------------------------------
(* f32 arithmetic on small integers and NaN                                *)

NaN == 1000000

IsNaN(x) == x = NaN

FAdd(a, b) == IF IsNaN(a) \/ IsNaN(b) THEN NaN ELSE a + b
FSub(a, b) == IF IsNaN(a) \/ IsNaN(b) THEN NaN ELSE a - b
FMul(a, b) == IF IsNaN(a) \/ IsNaN(b) THEN NaN ELSE a * b
FLt(a, b) == IF IsNaN(a) \/ IsNaN(b) THEN FALSE ELSE a < b

(* na::FloatPnt::sqdist for 1-D points *)
sqdist(a, b) == LET d == FSub(a, b) IN FMul(d, d)

(* na::Norm::normalize for 1-D vectors: v / sqrt(v * v) *)
normalize(v) ==
    IF IsNaN(v) THEN NaN
    ELSE IF v = 0 THEN NaN
    ELSE IF v > 0 THEN 1 ELSE -1

Zero == 0

----------------------------------------------------------------------------
(* ConnectAction, Attractor, Node                                          *)

KillAttractor == [kind |-> "KillAttractor", iterations |-> 0]
DisableFor(k) == [kind |-> "DisableFor", iterations |-> k]
DisableForConnectingRoot == [kind |-> "DisableForConnectingRoot", iterations |-> 0]

ConnectActions ==
    {KillAttractor, DisableForConnectingRoot}
        \cup {DisableFor(k) : k \in DisableIterations}

(* is_active_in with a strict comparison *)
is_active_in_Strict(ap, current_iteration) ==
    current_iteration > ap.active_from_iteration

(* Attractor::is_active_in *)
is_active_in(ap, current_iteration) ==
    current_iteration >= ap.active_from_iteration

(* Attractor::disable_until *)
disable_until(ap, iteration) ==
    [ap EXCEPT !.active_from_iteration = iteration]

(* transmit_information keeping a payload that is already set *)
transmit_information_KeepFirst(node, information) ==
    IF node.assigned_information = None
        THEN [node EXCEPT !.assigned_information = Some(information)]
    ELSE node

(* Node::transmit_information *)
transmit_information(node, information) ==
    [node EXCEPT !.assigned_information = Some(information)]

(* is_active with both limits included *)
is_active_Inclusive(node, maxl, maxb) ==
    node.length <= maxl /\ node.branches <= maxb

(* is_active without the limit on branches *)
is_active_NoBranchLimit(node, maxl, maxb) == node.length < maxl

(* is_active of every node *)
is_active_Always(node, maxl, maxb) == TRUE

(* Node::is_active *)
is_active(node, maxl, maxb) ==
    node.length < maxl /\ node.branches < maxb

(* SpaceColonization::use_last_n_nodes: set to None by new() and never
   assigned again *)
use_last_n_nodes == None

(* SpaceColonization::get_node: self.nodes.get(node_idx), None when the
   index is out of range *)
get_node(ns, node_idx) ==
    IF node_idx < Len(ns) THEN Some(ns[node_idx + 1]) ELSE None

(* SpaceColonization::get_node_mut *)
get_node_mut(ns, node_idx) ==
    IF node_idx < Len(ns) THEN Some(ns[node_idx + 1]) ELSE None

(* Option::unwrap: the value of Some(x); on None the call panics, and the
   expression has no value *)
unwrap(opt) == opt[1]

----------------------------------------------------------------------------
(* Population interface                                                    *)

(* RootNode with the first node of the arena as parent *)
RootNode_ParentZero(ns, position, information) ==
    [parent |-> 0,
     root |-> Len(ns),
     length |-> 0,
     branches |-> 0,
     position |-> position,
     growth |-> Zero,
     growth_count |-> 0,
     assigned_information |-> information]

(* The node pushed by add_root_node_with_information *)
RootNode(ns, position, information) ==
    LET root_idx == Len(ns)
    IN  [parent |-> root_idx,
         root |-> root_idx,
         length |-> 0,
         branches |-> 0,
         position |-> position,
         growth |-> Zero,
         growth_count |-> 0,
         assigned_information |-> information]

(* LeafNode with the parent taken as root *)
LeafNode_RootIsParent(ns, position, parent) ==
    [parent |-> parent,
     root |-> parent,
     length |-> unwrap(get_node_mut(ns, parent)).length + 1,
     branches |-> 0,
     position |-> position,
     growth |-> Zero,
     growth_count |-> 0,
     assigned_information |-> None]

(* LeafNode with the parent's length *)
LeafNode_SameLength(ns, position, parent) ==
    LET parent_node == unwrap(get_node_mut(ns, parent))
    IN  [parent |-> parent,
         root |-> parent_node.root,
         length |-> parent_node.length,
         branches |-> 0,
         position |-> position,
         growth |-> Zero,
         growth_count |-> 0,
         assigned_information |-> None]

(* The node pushed by add_leaf_node; parent_node is read after its
   branches were incremented *)
LeafNode(ns, position, parent) ==
    LET parent_node == unwrap(get_node_mut(ns, parent))
    IN  [parent |-> parent,
         root |-> parent_node.root,
         length |-> parent_node.length + 1,
         branches |-> 0,
         position |-> position,
         growth |-> Zero,
         growth_count |-> 0,
         assigned_information |-> None]

(* add_leaf_node without the increment of the parent's branches *)
add_leaf_node_NoBranchCount(ns, position, parent) ==
    Append(ns, LeafNode(ns, position, parent))

(* add_leaf_node inserting the new node at the front of the arena *)
add_leaf_node_AtFront(ns, position, parent) ==
    LET bumped == [ns EXCEPT ![parent + 1].branches = @ + 1]
    IN  <<LeafNode(bumped, position, parent)>> \o bumped

(* SpaceColonization::add_leaf_node *)
add_leaf_node(ns, position, parent) ==
    LET bumped == [ns EXCEPT ![parent + 1].branches = @ + 1]
    IN  Append(bumped, LeafNode(bumped, position, parent))

(* swap_remove dropping the last element instead of the one at idx *)
swap_remove_Pop(s, idx) ==
    SubSeq(s, 1, Len(s) - 1)

(* Vec::swap_remove: the last element takes the place of the removed one.
   An index outside the vector panics: the expression has no value, as
   the access to the element that is not there. *)
swap_remove(s, idx) ==
    LET last == Len(s)
    IN  IF idx >= last
            THEN SubSeq(s, 1, last - 1) \o s[idx + 1]
        ELSE IF idx + 1 = last
            THEN SubSeq(s, 1, last - 1)
        ELSE SubSeq(s, 1, idx) \o <<s[last]>> \o SubSeq(s, idx + 2, last - 1)

----------------------------------------------------------------------------
(* The step operation, Iterator::next                                      *)

(* denied_root without the not_for_connecting_root filter *)
denied_root_NotForRootOnly(ap, node) ==
    ap.not_for_root = Some(node.root)

(* The two root filters of the node scan: the node is skipped when its
   root is the attractor's not_for_root or not_for_connecting_root *)
denied_root(ap, node) ==
    \/ ap.not_for_root = Some(node.root)
    \/ ap.not_for_connecting_root = Some(node.root)

(* within_connect with the boundary included *)
within_connect_Inclusive(dist, ap) ==
    FLt(dist, ap.connect_dist) \/ dist = ap.connect_dist

(* dist < ap.connect_dist *)
within_connect(dist, ap) == FLt(dist, ap.connect_dist)

(* nearer with the comparison reversed *)
nearer_Reversed(dist, nearest_distance) == FLt(nearest_distance, dist)

(* dist < nearest_distance *)
nearer(dist, nearest_distance) == FLt(dist, nearest_distance)

(* The node loop of one attractor, from window position j on.  acc holds
   the loop's locals nearest_node, nearest_distance and connect_node; the
   nodes are named by their arena index. *)
RECURSIVE ScanNodes(_, _, _, _, _, _)
ScanNodes(ap, ns, maxl, maxb, j, acc) ==
    IF j >= Len(ns) THEN acc
    ELSE
        LET node == ns[j + 1]
            dist == sqdist(node.position, ap.position)
        IN  IF ~is_active(node, maxl, maxb)
                THEN ScanNodes(ap, ns, maxl, maxb, j + 1, acc)
            ELSE IF denied_root(ap, node)
                THEN ScanNodes(ap, ns, maxl, maxb, j + 1, acc)
            ELSE IF within_connect(dist, ap)
                THEN [acc EXCEPT !.connect_node = Some(j)]
            ELSE IF nearer(dist, acc.nearest_distance)
                THEN ScanNodes(ap, ns, maxl, maxb, j + 1,
                               [acc EXCEPT !.nearest_distance = dist,
                                           !.nearest_node = Some(j)])
            ELSE ScanNodes(ap, ns, maxl, maxb, j + 1, acc)

(* Scan with the nearest of the nodes in contact range as connect_node *)
Scan_NearestContact(ap, ns, maxl, maxb, start_index) ==
    LET sc == ScanNodes(ap, ns, maxl, maxb, start_index,
                        [nearest_node |-> None,
                         nearest_distance |-> ap.attract_dist,
                         connect_node |-> None])
        inrange == {j \in start_index..(Len(ns) - 1) :
                       /\ is_active(ns[j + 1], maxl, maxb)
                       /\ ~denied_root(ap, ns[j + 1])
                       /\ within_connect(sqdist(ns[j + 1].position,
                                                ap.position), ap)}
    IN  IF sc.connect_node = None THEN sc
        ELSE [sc EXCEPT !.connect_node =
                 Some(CHOOSE j \in inrange : \A i \in inrange :
                     LET dj == sqdist(ns[j + 1].position, ap.position)
                         di == sqdist(ns[i + 1].position, ap.position)
                     IN  dj < di \/ (dj = di /\ j <= i))]

(* The scan of one attractor over the window nodes[start_index..] *)
Scan(ap, ns, maxl, maxb, start_index) ==
    ScanNodes(ap, ns, maxl, maxb, start_index,
              [nearest_node |-> None,
               nearest_distance |-> ap.attract_dist,
               connect_node |-> None])

(* attract keeping the mean of the pulls in the accumulator *)
attract_Average(node, ap) ==
    LET v == FMul(normalize(FSub(ap.position, node.position)), ap.strength)
    IN  [node EXCEPT !.growth = IF IsNaN(FAdd(@, v)) THEN NaN
                                ELSE (node.growth * node.growth_count + v)
                                         \div (node.growth_count + 1),
                     !.growth_count = @ + 1]

(* The pull an attractor adds to its nearest node *)
attract(node, ap) ==
    LET v == FMul(normalize(FSub(ap.position, node.position)), ap.strength)
    IN  [node EXCEPT !.growth = FAdd(@, v),
                     !.growth_count = @ + 1]

(* The connect action of a contact, on the attractor collection *)
connect(aps, ap_idx, ap, node, current_iteration) ==
    IF ap.connect_action.kind = "KillAttractor"
        THEN swap_remove(aps, ap_idx)
    ELSE IF ap.connect_action.kind = "DisableFor"
        THEN [aps EXCEPT ![ap_idx + 1] =
                 disable_until(@, current_iteration + ap.connect_action.iterations)]
    ELSE [aps EXCEPT ![ap_idx + 1].not_for_connecting_root = Some(node.root)]

(* after_connect moving on to the next slot whatever the action *)
after_connect_Advance(ap_idx, ap) == ap_idx + 1

(* The index of the attractor processed after a contact: a killed
   attractor's slot is processed again *)
after_connect(ap_idx, ap) ==
    IF ap.connect_action.kind = "KillAttractor" THEN ap_idx ELSE ap_idx + 1

(* The attractor loop ('outer), from ap_idx on.  st holds the node arena,
   the attractor collection and the record of what each attractor did. *)
RECURSIVE AttractorLoop(_, _, _, _, _, _)
AttractorLoop(st, ap_idx, current_iteration, maxl, maxb, start_index) ==
    IF ap_idx >= Len(st.attractors) THEN st
    ELSE
        LET ap == st.attractors[ap_idx + 1]
            sc == Scan(ap, st.nodes, maxl, maxb, start_index)
        IN  IF ~is_active_in(ap, current_iteration)
                THEN AttractorLoop(
                        [st EXCEPT !.events = Append(@,
                            [ap |-> ap, kind |-> "inactive", node |-> -1])],
                        ap_idx + 1, current_iteration, maxl, maxb, start_index)
            ELSE IF sc.connect_node # None
                THEN
                    LET n == sc.connect_node[1]
                        node == st.nodes[n + 1]
                    IN  AttractorLoop(
                            [nodes |-> [st.nodes EXCEPT ![n + 1] =
                                           transmit_information(@, ap.information)],
                             attractors |-> connect(st.attractors, ap_idx, ap,
                                                    node, current_iteration),
                             events |-> Append(st.events,
                                 [ap |-> ap, kind |-> "contact", node |-> n])],
                            after_connect(ap_idx, ap),
                            current_iteration, maxl, maxb, start_index)
            ELSE IF sc.nearest_node # None
                THEN
                    LET n == sc.nearest_node[1]
                    IN  AttractorLoop(
                            [st EXCEPT !.nodes[n + 1] = attract(@, ap),
                                       !.events = Append(@,
                                 [ap |-> ap, kind |-> "attract", node |-> n])],
                            ap_idx + 1, current_iteration, maxl, maxb, start_index)
            ELSE AttractorLoop(
                    [st EXCEPT !.events = Append(@,
                        [ap |-> ap, kind |-> "none", node |-> -1])],
                    ap_idx + 1, current_iteration, maxl, maxb, start_index)

(* spawn growing one child for each pull *)
spawn_PerPull(ns, i, mdist) ==
    IF ns[i + 1].growth_count > 0
        THEN
            LET d == FMul(normalize(ns[i + 1].growth), mdist)
                new_position == FAdd(ns[i + 1].position, d)
                grown == add_leaf_node(ns, new_position, i)
                again == IF ns[i + 1].growth_count > 1
                             THEN add_leaf_node(grown, new_position, i)
                             ELSE grown
            IN  [again EXCEPT ![i + 1].growth = Zero,
                              ![i + 1].growth_count = 0]
    ELSE ns

(* One round of the spawning loop: node i grows a child when it was pulled *)
spawn(ns, i, mdist) ==
    IF ns[i + 1].growth_count > 0
        THEN
            LET growth_factor == 1
                d == FMul(FMul(normalize(ns[i + 1].growth), mdist), growth_factor)
                new_position == FAdd(ns[i + 1].position, d)
                grown == add_leaf_node(ns, new_position, i)
            IN  [grown EXCEPT ![i + 1].growth = Zero,
                              ![i + 1].growth_count = 0]
    ELSE ns

(* The spawning loop, for i in start_index..num_nodes *)
RECURSIVE SpawnLoop(_, _, _, _)
SpawnLoop(ns, i, num_nodes, mdist) ==
    IF i >= num_nodes THEN ns
    ELSE SpawnLoop(spawn(ns, i, mdist), i + 1, num_nodes, mdist)

Min(a, b) == IF a <= b THEN a ELSE b

(* The window of the scan: the last use_last_n_nodes nodes, or all *)
StartIndex(num_nodes) ==
    LET use_last_nodes ==
            Min(num_nodes,
                IF use_last_n_nodes = None THEN num_nodes ELSE use_last_n_nodes[1])
    IN  num_nodes - use_last_nodes

(* Returned without the subtraction of the earlier length *)
Returned_Total(ns_after, num_nodes) == Some(Len(ns_after))

(* The value next() returns *)
Returned(ns_after, num_nodes) == Some(Len(ns_after) - num_nodes)

(* The whole of next(): the attractor pass, then the spawning pass *)
StepResult(ns, aps, current_iteration, maxl, maxb, mdist) ==
    LET num_nodes == Len(ns)
        start_index == StartIndex(num_nodes)
        pass == AttractorLoop([nodes |-> ns, attractors |-> aps, events |-> <<>>],
                              0, current_iteration, maxl, maxb, start_index)
        grown == SpawnLoop(pass.nodes, start_index, num_nodes, mdist)
    IN  [nodes |-> grown,
         attractors |-> pass.attractors,
         events |-> pass.events,
         ret |-> Returned(grown, num_nodes)]

----------------------------------------------------------------------------
(* Visitors.  A visitor operation yields the sequence of the calls it makes
   to the closure it is given; panicked tells that an assertion or an
   unwrap() failed on the way, after the calls made so far.                *)

(* Node::is_root: the assertion fails on a node of length 0 whose root is
   not its parent *)
is_root(node) ==
    [panicked |-> node.length = 0 /\ node.root # node.parent,
     value |-> node.length = 0]

(* The segment handed to the closure with the node's root in place of its
   parent *)
segment_ToRoot(ns, node) ==
    LET parent == get_node(ns, node.root)
    IN  IF parent = None THEN None
        ELSE Some(<< node.position, parent[1].position >>)

(* The arguments of the closure call of visit_node_segments, None when the
   unwrap() of the parent fails *)
segment(ns, node) ==
    LET parent == get_node(ns, node.parent)
    IN  IF parent = None THEN None
        ELSE Some(<< node.position, parent[1].position >>)

(* The arguments of the closure call of visit_nodes_with_info_and_root *)
node_and_root(ns, node) ==
    LET root == get_node(ns, node.root)
    IN  IF root = None THEN None
        ELSE Some(<< node, root[1] >>)

RECURSIVE VisitAttractorPoints(_, _, _)
VisitAttractorPoints(aps, k, calls) ==
    IF k > Len(aps) THEN [panicked |-> FALSE, calls |-> calls]
    ELSE VisitAttractorPoints(aps, k + 1, Append(calls, aps[k].position))

RECURSIVE VisitAttractors(_, _, _)
VisitAttractors(aps, k, calls) ==
    IF k > Len(aps) THEN [panicked |-> FALSE, calls |-> calls]
    ELSE VisitAttractors(aps, k + 1, Append(calls, aps[k]))

RECURSIVE VisitNodeSegments(_, _, _)
VisitNodeSegments(ns, k, calls) ==
    IF k > Len(ns) THEN [panicked |-> FALSE, calls |-> calls]
    ELSE
        LET node == ns[k]
            r == is_root(node)
            seg == segment(ns, node)
        IN  IF r.panicked THEN [panicked |-> TRUE, calls |-> calls]
            ELSE IF ~r.value
                THEN IF seg = None THEN [panicked |-> TRUE, calls |-> calls]
                     ELSE VisitNodeSegments(ns, k + 1, Append(calls, seg[1]))
            ELSE VisitNodeSegments(ns, k + 1, calls)

RECURSIVE VisitNodesWithInfoAndRoot(_, _, _)
VisitNodesWithInfoAndRoot(ns, k, calls) ==
    IF k > Len(ns) THEN [panicked |-> FALSE, calls |-> calls]
    ELSE
        LET node == ns[k]
            r == is_root(node)
            pair == node_and_root(ns, node)
        IN  IF node.assigned_information = None
                THEN VisitNodesWithInfoAndRoot(ns, k + 1, calls)
            ELSE IF r.panicked THEN [panicked |-> TRUE, calls |-> calls]
            ELSE IF ~r.value
                THEN IF pair = None THEN [panicked |-> TRUE, calls |-> calls]
                     ELSE VisitNodesWithInfoAndRoot(ns, k + 1,
                                                    Append(calls, pair[1]))
            ELSE VisitNodesWithInfoAndRoot(ns, k + 1, calls)

RECURSIVE VisitRootNodes(_, _, _)
VisitRootNodes(ns, k, calls) ==
    IF k > Len(ns) THEN [panicked |-> FALSE, calls |-> calls]
    ELSE
        LET node == ns[k]
            r == is_root(node)
        IN  IF r.panicked THEN [panicked |-> TRUE, calls |-> calls]
            ELSE IF r.value
                THEN VisitRootNodes(ns, k + 1, Append(calls, node))
            ELSE VisitRootNodes(ns, k + 1, calls)

----------------------------------------------------------------------------
(* The state machine                                                       *)

engine == << max_length, max_branches, move_dist,
             default_attract_dist, default_connect_dist >>

(* SpaceColonization::new, its parameters drawn from the given sets *)
New(attract_dists, connect_dists, max_lengths, max_branchess, move_dists) ==
    /\ nodes = <<>>
    /\ attractors = <<>>
    /\ next_iteration = 0
    /\ max_length \in max_lengths
    /\ max_branches \in max_branchess
    /\ move_dist \in move_dists
    /\ default_attract_dist \in attract_dists
    /\ default_connect_dist \in connect_dists
    /\ ret = [op |-> "new", val |-> None]
    /\ events = <<>>
    /\ next_id = 0
    /\ killed = {}
    /\ lastContact = {}
    /\ connected = {}
    /\ roots = {}

Init ==
    New(DefaultAttractDists, DefaultConnectDists, MaxLengths, MaxBranchess,
        MoveDists)

(* The attractors a caller passes to add_attractor; id names the attractor
   in the history and is not read by the engine *)
NewAttractors(id) ==
    [attract_dist : AttractDists,
     connect_dist : ConnectDists,
     strength : Strengths,
     position : AttractorPositions,
     information : {id},
     connect_action : ConnectActions,
     active_from_iteration : ActiveFroms,
     not_for_root : NotForRoots,
     not_for_connecting_root : {None},
     id : {id}]

(* I::default() of the payload type *)
DefaultInformation == 0

(* The attractor add_default_attractor pushes *)
DefaultAttractor(position, id) ==
    [attract_dist |-> default_attract_dist,
     connect_dist |-> default_connect_dist,
     strength |-> 1,
     position |-> position,
     information |-> DefaultInformation,
     connect_action |-> KillAttractor,
     active_from_iteration |-> 0,
     not_for_root |-> None,
     not_for_connecting_root |-> None,
     id |-> id]

PushAttractor(attractor, op) ==
    /\ attractors' = Append(attractors, attractor)
    /\ next_id' = next_id + 1
    /\ ret' = [op |-> op, val |-> None]
    /\ events' = <<>>
    /\ UNCHANGED << nodes, next_iteration, engine, killed, lastContact,
                    connected, roots >>

(* SpaceColonization::add_attractor *)
add_attractor ==
    /\ next_id < MaxAttractors
    /\ \E attractor \in NewAttractors(next_id + 1) :
           PushAttractor(attractor, "add_attractor")

(* SpaceColonization::add_default_attractor *)
add_default_attractor ==
    /\ next_id < MaxAttractors
    /\ \E position \in DefaultAttractorPositions :
           PushAttractor(DefaultAttractor(position, next_id + 1),
                         "add_default_attractor")

NumRoots == Cardinality({i \in 1..Len(nodes) : nodes[i].length = 0})

PushRoot(position, information, op) ==
    /\ nodes' = Append(nodes, RootNode(nodes, position, information))
    /\ ret' = [op |-> op, val |-> Some(Len(nodes))]
    /\ events' = <<>>
    /\ roots' = roots \cup {Len(nodes)}
    /\ UNCHANGED << attractors, next_iteration, engine, next_id, killed,
                    lastContact, connected >>

(* SpaceColonization::add_root_node *)
add_root_node ==
    /\ NumRoots < MaxRoots
    /\ \E position \in RootPositions :
           PushRoot(position, None, "add_root_node")

(* SpaceColonization::add_root_node_with_information *)
add_root_node_with_information ==
    /\ NumRoots < MaxRoots
    /\ \E position \in InformedRootPositions, information \in RootInformations :
           PushRoot(position, information, "add_root_node_with_information")

(* The contacts of a step *)
Contacts(evs) == {k \in 1..Len(evs) : evs[k].kind = "contact"}

(* Iterator::next, called while fewer than limit calls were made *)
DoNext(limit) ==
    /\ next_iteration < limit
    /\ \E r \in {StepResult(nodes, attractors, next_iteration,
                           max_length, max_branches, move_dist)} :
       LET current_iteration == next_iteration
           hit == {r.events[k].ap.id : k \in Contacts(r.events)}
       IN  /\ next_iteration' = next_iteration + 1
           /\ nodes' = r.nodes
           /\ attractors' = r.attractors
           /\ events' = r.events
           /\ ret' = [op |-> "next", val |-> r.ret]
           /\ killed' = killed \cup
                  {r.events[k].ap.id : k \in
                      {c \in Contacts(r.events) :
                          r.events[c].ap.connect_action.kind = "KillAttractor"}}
           /\ lastContact' =
                  {p \in lastContact : p[1] \notin hit}
                      \cup {<<r.events[k].ap.id, current_iteration,
                              nodes[r.events[k].node + 1].root>> :
                                k \in Contacts(r.events)}
           /\ connected' = connected \cup
                  {<<r.events[k].ap.id, nodes[r.events[k].node + 1].root>> :
                      k \in {c \in Contacts(r.events) :
                          r.events[c].ap.connect_action.kind
                              = "DisableForConnectingRoot"}}
    /\ UNCHANGED << engine, next_id, roots >>

(* Iterator::next *)
next == DoNext(MaxIter)

Next ==
    \/ add_attractor
    \/ add_default_attractor
    \/ add_root_node
    \/ add_root_node_with_information
    \/ next

Spec == Init /\ [][Next]_vars

----------------------------------------------------------------------------
(* The example scenario: one root at the origin and one default attractor
   at distance 10 along the axis, attract_dist 400, connect_dist 1,
   move_dist 1, limits that do not bind.  The caller adds the root and the
   attractor, in either order, and then steps.                             *)

ChainMaxIter == 13

ChainAttractorPositions == {-10, 10}
ChainAttractDists == {400}
ChainConnectDists == {1}
ChainMaxLengths == {11, 12}
ChainMaxBranchess == {2, 3}
ChainMoveDists == {1}
ChainRootPositions == {0}

InitChain ==
    New(ChainAttractDists, ChainConnectDists, ChainMaxLengths,
        ChainMaxBranchess, ChainMoveDists)

chain_add_root_node ==
    /\ nodes = <<>>
    /\ \E position \in ChainRootPositions :
           PushRoot(position, None, "add_root_node")

chain_add_default_attractor ==
    /\ next_id = 0
    /\ \E position \in ChainAttractorPositions :
           PushAttractor(DefaultAttractor(position, next_id + 1),
                         "add_default_attractor")

chain_next ==
    /\ nodes # <<>>
    /\ next_id = 1
    /\ DoNext(ChainMaxIter)

NextChain ==
    \/ chain_add_root_node
    \/ chain_add_default_attractor
    \/ chain_next

SpecChain == InitChain /\ [][NextChain]_vars

----------------------------------------------------------------------------
(* Growth under binding limits: the caller builds the engine with small
   max_length and max_branches, adds roots and attractors (of either
   strength, with or without an excluded root) before the first step, and
   then steps.                                                             *)

GrowMaxLengths == {1, 2}
GrowMaxBranchess == {1, 2}
GrowStrengths == {1, 2}
GrowNotForRoots == {None, Some(0)}
GrowConnectActions == {KillAttractor, DisableForConnectingRoot}

InitGrow ==
    New(DefaultAttractDists, DefaultConnectDists, GrowMaxLengths,
        GrowMaxBranchess, MoveDists)

GrowAttractors(id) ==
    [attract_dist : AttractDists,
     connect_dist : ConnectDists,
     strength : GrowStrengths,
     position : AttractorPositions,
     information : {id},
     connect_action : GrowConnectActions,
     active_from_iteration : ActiveFroms,
     not_for_root : GrowNotForRoots,
     not_for_connecting_root : {None},
     id : {id}]

(* The population calls made before the first step *)
early_add_attractor ==
    /\ next_iteration = 0
    /\ add_attractor

grow_add_attractor ==
    /\ next_iteration = 0
    /\ next_id < MaxAttractors
    /\ \E attractor \in GrowAttractors(next_id + 1) :
           PushAttractor(attractor, "add_attractor")

early_add_default_attractor ==
    /\ next_iteration = 0
    /\ add_default_attractor

early_add_root_node ==
    /\ next_iteration = 0
    /\ add_root_node

early_add_root_node_with_information ==
    /\ next_iteration = 0
    /\ add_root_node_with_information

NextGrow ==
    \/ grow_add_attractor
    \/ early_add_default_attractor
    \/ early_add_root_node
    \/ early_add_root_node_with_information
    \/ next

SpecGrow == InitGrow /\ [][NextGrow]_vars

----------------------------------------------------------------------------
(* Visiting: the caller populates the engine before the first step, and
   calls the visitors at any time, between the population calls and between
   the steps.                                                              *)

(* A visitor call: the engine is borrowed immutably *)
Visit(op, result) ==
    /\ ret' = [op |-> op, val |-> result]
    /\ UNCHANGED << nodes, attractors, next_iteration, engine, events,
                    next_id, killed, lastContact, connected, roots >>

visit_attractor_points ==
    Visit("visit_attractor_points", VisitAttractorPoints(attractors, 1, <<>>))

visit_attractors ==
    Visit("visit_attractors", VisitAttractors(attractors, 1, <<>>))

visit_node_segments ==
    Visit("visit_node_segments", VisitNodeSegments(nodes, 1, <<>>))

visit_nodes_with_info_and_root ==
    Visit("visit_nodes_with_info_and_root",
          VisitNodesWithInfoAndRoot(nodes, 1, <<>>))

visit_root_nodes ==
    Visit("visit_root_nodes", VisitRootNodes(nodes, 1, <<>>))

NextVisit ==
    \/ early_add_attractor
    \/ early_add_default_attractor
    \/ early_add_root_node
    \/ early_add_root_node_with_information
    \/ next
    \/ visit_attractor_points
    \/ visit_attractors
    \/ visit_node_segments
    \/ visit_nodes_with_info_and_root
    \/ visit_root_nodes

SpecVisit == Init /\ [][NextVisit]_vars

----------------------------------------------------------------------------
(* Properties                                                              *)

NodeIdxs == 0..(Len(nodes) - 1)

(* The children of the node with index i: the other nodes naming it parent *)
Children(i) == {j \in NodeIdxs : j # i /\ nodes[j + 1].parent = i}

(* C1: every call of next() returns Some(n), n being the length of the
   arena after the call minus its length before the call. *)
C1_ReturnsNewNodeCount ==
    [][next_iteration' # next_iteration =>
          /\ ret'.op = "next"
          /\ ret'.val = Some(Len(nodes') - Len(nodes))]_vars

(* A step that returned 2 in an arena that already held grown nodes *)
C1_Witness ==
    /\ ret.op = "next"
    /\ ret.val = Some(2)
    /\ Len(nodes) >= 5

(* C2: every node created by add_root_node or
   add_root_node_with_information has parent = root = its own index and
   length 0, in every later state too, and the assertion of is_root holds
   of every node: length = 0 implies root = parent. *)
C2_RootsStayRoots ==
    /\ \A r \in roots :
           /\ r \in NodeIdxs
           /\ nodes[r + 1].parent = r
           /\ nodes[r + 1].root = r
           /\ nodes[r + 1].length = 0
    /\ \A i \in NodeIdxs :
           nodes[i + 1].length = 0 => nodes[i + 1].root = nodes[i + 1].parent

(* A root added after the arena had grown, which has itself grown a child
   in a later step *)
C2_Witness ==
    \E r \in roots :
        /\ r >= 2
        /\ \E i \in NodeIdxs : i \notin roots /\ i < r
        /\ Children(r) # {}

(* C3: every non-root node has length = its parent's length + 1 and the
   root of its parent. *)
C3_LeafExtendsParent ==
    \A i \in NodeIdxs \ roots :
        LET n == nodes[i + 1]
        IN  /\ n.parent \in NodeIdxs
            /\ n.length = nodes[n.parent + 1].length + 1
            /\ n.root = nodes[n.parent + 1].root

(* A grandchild of a root: a node of length 2 whose parent is no root *)
C3_Witness ==
    \E i \in NodeIdxs \ roots :
        /\ nodes[i + 1].length = 2
        /\ nodes[i + 1].parent \notin roots
        /\ nodes[i + 1].root # nodes[i + 1].parent

(* C4 as stated: branches of every node equals the number of nodes of the
   arena whose parent index is the node's index. *)
C4_Original ==
    \A i \in NodeIdxs :
        nodes[i + 1].branches =
            Cardinality({j \in NodeIdxs : nodes[j + 1].parent = i})

(* C4 amended: branches of every node equals the number of other nodes of
   the arena whose parent index is the node's index (a root is its own
   parent and does not count as its own branch). *)
C4_BranchesCountChildren ==
    \A i \in NodeIdxs :
        nodes[i + 1].branches = Cardinality(Children(i))

(* A root with two children and a non-root node with a child *)
C4_Witness ==
    /\ \E r \in roots : nodes[r + 1].branches = 2
    /\ \E i \in NodeIdxs \ roots : nodes[i + 1].branches >= 1

(* C5: the arena is append-only (its length never decreases, and the
   parent, root and length of the node at an index never change), every
   non-root node's parent index is below its own index, and parent and
   root indices name nodes of the arena. *)
C5_AppendOnlyArena ==
    /\ [][/\ Len(nodes') >= Len(nodes)
          /\ \A i \in NodeIdxs :
                 /\ nodes'[i + 1].parent = nodes[i + 1].parent
                 /\ nodes'[i + 1].root = nodes[i + 1].root
                 /\ nodes'[i + 1].length = nodes[i + 1].length]_vars
    /\ [](\A i \in NodeIdxs :
              /\ nodes[i + 1].parent \in NodeIdxs
              /\ nodes[i + 1].root \in NodeIdxs
              /\ i \notin roots => nodes[i + 1].parent < i)

(* An arena of two trees in which a node's parent is itself a grown node *)
C5_Witness ==
    /\ Cardinality(roots) = 2
    /\ \E i \in NodeIdxs \ roots :
           /\ nodes[i + 1].parent \notin roots
           /\ nodes[i + 1].parent < i

(* A node the scan of attractor ap does not skip *)
Eligible(ap, node) ==
    is_active(node, max_length, max_branches) /\ ~denied_root(ap, node)

KillContacts(evs) ==
    {k \in Contacts(evs) : evs[k].ap.connect_action.kind = "KillAttractor"}

Acted(e) == e.kind \in {"contact", "attract"}

MaxOf(S) == CHOOSE x \in S : \A y \in S : y <= x

(* C6: in a step, an eligible node at squared distance exactly connect_dist
   of a scanned attractor is not its contact, an eligible node at squared
   distance exactly attract_dist is not pulled by it, an attractor with
   an eligible node strictly within connect_dist makes contact, and an
   attractor that makes no contact is left as it was. *)
C6_StrictRadii ==
    [][next_iteration' # next_iteration =>
          \A k \in 1..Len(events') :
              LET e == events'[k]
                  elig == {n \in NodeIdxs : Eligible(e.ap, nodes[n + 1])}
              IN  e.kind # "inactive" =>
                      /\ \A n \in elig :
                             LET dist == sqdist(nodes[n + 1].position, e.ap.position)
                             IN  /\ dist = e.ap.connect_dist =>
                                        ~(e.kind = "contact" /\ e.node = n)
                                 /\ dist = e.ap.attract_dist =>
                                        ~(e.kind = "attract" /\ e.node = n)
                      /\ (\E n \in elig :
                             FLt(sqdist(nodes[n + 1].position, e.ap.position),
                                 e.ap.connect_dist))
                             => e.kind = "contact"
                      /\ e.kind # "contact" =>
                             \E j \in 1..Len(attractors') : attractors'[j] = e.ap]_vars

(* A step in which an attractor pulled a node at exactly its connect_dist
   while another node lay at exactly its attract_dist, and in which another
   attractor made contact with a node strictly within its connect_dist *)
C6_Witness ==
    /\ ret.op = "next"
    /\ \E k \in 1..Len(events) :
           LET e == events[k]
           IN  /\ e.kind = "attract"
               /\ sqdist(nodes[e.node + 1].position, e.ap.position) = e.ap.connect_dist
               /\ \E n \in NodeIdxs :
                      /\ n # e.node
                      /\ Eligible(e.ap, nodes[n + 1])
                      /\ sqdist(nodes[n + 1].position, e.ap.position) = e.ap.attract_dist
    /\ \E k \in 1..Len(events) :
           LET e == events[k]
           IN  /\ e.kind = "contact"
               /\ FLt(sqdist(nodes[e.node + 1].position, e.ap.position),
                      e.ap.connect_dist)
               /\ \E n \in NodeIdxs :
                      /\ n < e.node
                      /\ Eligible(e.ap, nodes[n + 1])
                      /\ sqdist(nodes[n + 1].position, e.ap.position) = e.ap.connect_dist

(* C7: each contact of a KillAttractor attractor in a step removes exactly
   that attractor: the collection shrinks by the number of such contacts,
   every other attractor is kept once, unchanged unless it made a contact
   of its own, and a removed attractor is not processed again, in the rest
   of that step or in any later step. *)
C7_KillRemovesExactlyOne ==
    [][next_iteration' # next_iteration =>
          LET kills == KillContacts(events')
              gone == {events'[k].ap.id : k \in kills}
          IN  /\ Cardinality(gone) = Cardinality(kills)
              /\ Len(attractors') = Len(attractors) - Cardinality(kills)
              /\ \A j \in 1..Len(attractors) :
                     LET a == attractors[j]
                         kept == {j2 \in 1..Len(attractors') :
                                      attractors'[j2].id = a.id}
                     IN  IF a.id \in gone
                             THEN kept = {}
                         ELSE /\ Cardinality(kept) = 1
                              /\ (\A k \in Contacts(events') :
                                      events'[k].ap.id # a.id)
                                     => \E j2 \in kept : attractors'[j2] = a
              /\ \A k \in 1..Len(events') :
                     /\ events'[k].ap.id \notin killed
                     /\ \A k2 \in kills : k > k2 => events'[k].ap.id # events'[k2].ap.id
              /\ killed' = killed \cup gone]_vars

(* A step in which the attractor in the first slot was killed while others
   were in the collection: the one moved into its slot was processed in
   the same step and is still in the collection *)
C7_Witness ==
    /\ ret.op = "next"
    /\ Len(events) >= 2
    /\ 1 \in KillContacts(events)
    /\ 2 \notin KillContacts(events)
    /\ Len(attractors) >= 1
    /\ attractors[1].id = events[2].ap.id

(* C8 as stated: a DisableFor{k} contact at iteration c sets
   active_from_iteration to c + k, the attractor is skipped in the k calls
   with iterations c+1..c+k and scanned in the call with iteration c+k+1. *)
C8_Original ==
    [][next_iteration' # next_iteration =>
          \A n \in 1..Len(events') :
              LET e == events'[n]
                  k == e.ap.connect_action.iterations
              IN  e.ap.connect_action.kind = "DisableFor" =>
                      /\ e.kind = "contact" =>
                             \E j \in 1..Len(attractors') :
                                 /\ attractors'[j].id = e.ap.id
                                 /\ attractors'[j].active_from_iteration
                                        = next_iteration + k
                      /\ \A p \in lastContact :
                             p[1] = e.ap.id =>
                                 /\ next_iteration <= p[2] + k => e.kind = "inactive"
                                 /\ next_iteration = p[2] + k + 1 => e.kind # "inactive"]_vars

(* C8 amended: a DisableFor{k} contact at iteration c sets
   active_from_iteration to c + k; the attractor is skipped in the calls
   with iterations c+1..c+k-1, that is in the next k-1 calls (none when
   k <= 1), and scanned again from the call with iteration c+k on, the
   k-th call after the contact. *)
C8_DisabledUntilKthCall ==
    [][next_iteration' # next_iteration =>
          \A n \in 1..Len(events') :
              LET e == events'[n]
                  k == e.ap.connect_action.iterations
              IN  e.ap.connect_action.kind = "DisableFor" =>
                      /\ e.kind = "contact" =>
                             \E j \in 1..Len(attractors') :
                                 /\ attractors'[j].id = e.ap.id
                                 /\ attractors'[j].active_from_iteration
                                        = next_iteration + k
                      /\ \A p \in lastContact :
                             p[1] = e.ap.id =>
                                 /\ next_iteration < p[2] + k => e.kind = "inactive"
                                 /\ next_iteration >= p[2] + k => e.kind # "inactive"]_vars

(* A step that scanned a DisableFor{2} attractor again, in the second call
   after its contact, the step before having skipped it *)
C8_Witness ==
    /\ ret.op = "next"
    /\ \E n \in 1..Len(events) :
           /\ events[n].ap.connect_action = DisableFor(2)
           /\ events[n].kind = "contact"
           /\ events[n].ap.active_from_iteration = next_iteration - 1
           /\ events[n].ap.active_from_iteration >= 2

(* C9 as stated: once a DisableForConnectingRoot attractor has made
   contact with a node of root r, it never again contacts or pulls a node
   of root r. *)
C9_Original ==
    [][next_iteration' # next_iteration =>
          \A k \in 1..Len(events') :
              LET e == events'[k]
              IN  Acted(e) =>
                      <<e.ap.id, nodes[e.node + 1].root>> \notin connected]_vars

(* C9 amended: a DisableForConnectingRoot attractor neither contacts nor
   pulls a node whose root is the root of the node of its latest contact;
   a contact with a node of another tree replaces the excluded root, so
   the earlier tree is visible to the attractor again. *)
C9_InvisibleToLastConnectedRoot ==
    [][next_iteration' # next_iteration =>
          \A k \in 1..Len(events') :
              LET e == events'[k]
              IN  (Acted(e) /\ e.ap.connect_action.kind = "DisableForConnectingRoot") =>
                      \A p \in lastContact :
                          p[1] = e.ap.id => p[3] # nodes[e.node + 1].root]_vars

(* A step in which a DisableForConnectingRoot attractor that had made
   contact with one tree made contact with a node of another tree *)
C9_Witness ==
    /\ ret.op = "next"
    /\ \E k \in 1..Len(events) :
           LET e == events[k]
           IN  /\ e.kind = "contact"
               /\ e.ap.connect_action.kind = "DisableForConnectingRoot"
               /\ \E r \in roots :
                      /\ <<e.ap.id, r>> \in connected
                      /\ e.ap.not_for_connecting_root = Some(r)
                      /\ nodes[e.node + 1].root # r

(* C10 as stated: once a node's payload is set, no call changes it. *)
C10_Original ==
    [][\A i \in NodeIdxs :
           nodes[i + 1].assigned_information # None =>
               nodes'[i + 1].assigned_information
                   = nodes[i + 1].assigned_information]_vars

(* C10 amended: a node's payload is changed by contacts only, and every
   contact overwrites it: after a call, a node that was contacted in it
   holds the information of the last attractor that contacted it, whatever
   it held before, and any other node holds what it held before; a node
   grown in the call holds none. *)
C10_PayloadIsLastContact ==
    [][/\ \A i \in NodeIdxs :
              LET cs == {k \in Contacts(events') : events'[k].node = i}
              IN  nodes'[i + 1].assigned_information =
                      IF cs = {} THEN nodes[i + 1].assigned_information
                      ELSE Some(events'[MaxOf(cs)].ap.information)
       /\ next_iteration' # next_iteration =>
              \A i \in Len(nodes)..(Len(nodes') - 1) :
                  nodes'[i + 1].assigned_information = None]_vars

(* A step in which two attractors with different information made contact
   with the same node, a root that carried an initial payload *)
C10_Witness ==
    /\ ret.op = "next"
    /\ \E k1, k2 \in Contacts(events) :
           /\ k1 < k2
           /\ events[k1].node = events[k2].node
           /\ events[k1].ap.information # events[k2].ap.information
           /\ events[k1].node \in roots
           /\ nodes[events[k2].node + 1].assigned_information
                  = Some(events[k2].ap.information)

(* The nodes strictly within squared distance 1 of attractor ap *)
InContact(ap) ==
    {i \in NodeIdxs : FLt(sqdist(nodes[i + 1].position, ap.position), 1)}

(* C11: in the example scenario every step before contact adds exactly one
   node, the child of the most recently added node, one unit closer to the
   attractor, and no node has a second branch; once a node lies within
   squared distance 1 of the attractor the step kills the attractor and
   returns 0, and so does every later step; the attractor is killed by the
   11th call at the latest, and the chain then counts 10 grown nodes (the
   node at distance 1 is not in contact, so the chain grows one node past
   it). *)
C11_StraightChain ==
    /\ [][next_iteration' # next_iteration =>
              IF attractors = <<>>
                  THEN /\ ret'.val = Some(0)
                       /\ nodes' = nodes
                       /\ attractors' = <<>>
              ELSE IF InContact(attractors[1]) # {}
                  THEN /\ ret'.val = Some(0)
                       /\ attractors' = <<>>
                       /\ Len(nodes') = Len(nodes)
              ELSE
                  LET ap == attractors[1]
                      last == nodes[Len(nodes)]
                      new == nodes'[Len(nodes')]
                  IN  /\ ret'.val = Some(1)
                      /\ Len(nodes') = Len(nodes) + 1
                      /\ attractors' = attractors
                      /\ new.parent = Len(nodes) - 1
                      /\ sqdist(new.position, last.position) = 1
                      /\ FLt(sqdist(new.position, ap.position),
                             sqdist(last.position, ap.position))]_vars
    /\ [](\A i \in NodeIdxs :
              /\ nodes[i + 1].branches <= 1
              /\ i > 0 => nodes[i + 1].parent = i - 1)
    /\ [](killed # {} => Len(nodes) = 11)
    /\ [](next_iteration >= 11 => attractors = <<>>)

(* The step after the contact: the attractor is gone, the chain of 10 grown
   nodes ends on the attractor's position, and the step returned 0 *)
C11_Witness ==
    /\ ret.op = "next"
    /\ ret.val = Some(0)
    /\ events = <<>>
    /\ killed = {1}
    /\ next_iteration = 12
    /\ Len(nodes) = 11
    /\ nodes[11].length = 10
    /\ nodes[11].position \in ChainAttractorPositions
    /\ nodes[11].assigned_information = Some(DefaultInformation)

(* A node that reached one of the engine's limits *)
AtLimit(node) ==
    node.length >= max_length \/ node.branches >= max_branches

NoNodeActive == \A i \in NodeIdxs : AtLimit(nodes[i + 1])

(* C12: a step taken while the attractor collection is empty, or while no
   node of the arena is active, returns 0 and leaves the arena and the
   attractor collection as they were: same members, same order, same
   fields. *)
C12_NoOpStep ==
    [][(next_iteration' # next_iteration /\ (attractors = <<>> \/ NoNodeActive))
          => /\ ret'.val = Some(0)
             /\ nodes' = nodes
             /\ attractors' = attractors]_vars

(* A step that scanned two attractors over an arena of grown trees in which
   no node was active *)
C12_Witness ==
    /\ ret.op = "next"
    /\ ret.val = Some(0)
    /\ Len(events) = 2
    /\ \A k \in 1..Len(events) : events[k].kind = "none"
    /\ Len(nodes) > NumRoots
    /\ NoNodeActive

C12_EmptyCollectionCase ==
    /\ ret.op = "next"
    /\ ret.val = Some(0)
    /\ attractors = <<>>
    /\ events = <<>>
    /\ killed # {}
    /\ Len(nodes) > NumRoots
    /\ ~NoNodeActive

VisitOps ==
    {"visit_attractor_points", "visit_attractors", "visit_node_segments",
     "visit_nodes_with_info_and_root", "visit_root_nodes"}

(* The indices, in arena order, of the nodes a visitor calls the closure
   for *)
Visited(op) ==
    {i \in NodeIdxs :
        CASE op = "visit_node_segments" -> i \notin roots
          [] op = "visit_nodes_with_info_and_root" ->
                 i \notin roots /\ nodes[i + 1].assigned_information # None
          [] op = "visit_root_nodes" -> i \in roots
          [] OTHER -> FALSE}

(* The i-th node's place among the visited nodes *)
Rank(op, i) == Cardinality({j \in Visited(op) : j <= i})

(* The root of the tree of node i, found by walking up the parent links *)
RECURSIVE TreeRoot(_)
TreeRoot(i) == IF i \in roots THEN i ELSE TreeRoot(nodes[i + 1].parent)

(* What the closure is called with for node i *)
CallFor(op, i) ==
    CASE op = "visit_node_segments" ->
             << nodes[i + 1].position, nodes[nodes[i + 1].parent + 1].position >>
      [] op = "visit_nodes_with_info_and_root" ->
             << nodes[i + 1], nodes[TreeRoot(i) + 1] >>
      [] OTHER -> nodes[i + 1]

(* C13: a visitor call changes nothing of the engine (arena, attractor
   collection, iteration counter, parameters), so that a following step has
   the outcome it would have had without the call; it fails no assertion
   and no index lookup; and what it yields is determined by the state
   alone, in collection order for the attractor visitors and in arena order
   for the node visitors: one call per attractor, per non-root node, per
   non-root node holding a payload (with the root of its tree), and per
   root node. *)
C13_VisitorsReadOnly ==
    [][ret'.op \in VisitOps =>
          /\ UNCHANGED << nodes, attractors, next_iteration, engine >>
          /\ ~ret'.val.panicked
          /\ LET calls == ret'.val.calls
                 op == ret'.op
             IN  IF op = "visit_attractor_points"
                     THEN /\ Len(calls) = Len(attractors)
                          /\ \A k \in 1..Len(calls) :
                                 calls[k] = attractors[k].position
                 ELSE IF op = "visit_attractors"
                     THEN calls = attractors
                 ELSE /\ Len(calls) = Cardinality(Visited(op))
                      /\ \A i \in Visited(op) :
                             calls[Rank(op, i)] = CallFor(op, i)]_vars

(* A call of visit_nodes_with_info_and_root on an arena holding a root with
   a payload and a child without one, which are passed over, and a child
   with a payload, which is handed to the closure with the root of its
   tree *)
C13_Witness ==
    /\ ret.op = "visit_nodes_with_info_and_root"
    /\ ~ret.val.panicked
    /\ \E i \in roots : nodes[i + 1].assigned_information # None
    /\ \E i \in NodeIdxs \ roots : nodes[i + 1].assigned_information = None
    /\ \E k \in 1..Len(ret.val.calls) :
           /\ ret.val.calls[k][1].length = 1
           /\ ret.val.calls[k][2].length = 0
    /\ attractors # <<>>

(* The arena as the attractor pass of a step taken now leaves it, before
   the spawning loop runs *)
PassNodes ==
    AttractorLoop([nodes |-> nodes, attractors |-> attractors, events |-> <<>>],
                  0, next_iteration, max_length, max_branches,
                  StartIndex(Len(nodes))).nodes

(* The events of a step that name node n *)
Naming(evs, kind, n) ==
    {k \in 1..Len(evs) : evs[k].kind = kind /\ evs[k].node = n}

(* The eligible nodes strictly within connect_dist of attractor ap *)
InConnectRange(ap) ==
    {n \in NodeIdxs :
        /\ Eligible(ap, nodes[n + 1])
        /\ FLt(sqdist(nodes[n + 1].position, ap.position), ap.connect_dist)}

(* C14: the contact of an attractor in a step is with the eligible node of
   lowest arena index strictly within connect_dist, whether or not a node
   of higher index is nearer; a node's payload changes in a step only when
   a contact names it; and an attractor that makes contact adds nothing to
   any growth accumulator: a node named by no pull, even if it was the
   nearest candidate of an attractor that went on to make contact, ends
   the attractor pass with growth_count 0 and zero growth and gets no
   child. *)
C14_FirstMatchContact ==
    [][next_iteration' # next_iteration =>
          /\ \A k \in Contacts(events') :
                 LET e == events'[k]
                 IN  /\ e.node \in InConnectRange(e.ap)
                     /\ \A n \in InConnectRange(e.ap) : e.node <= n
          /\ \A pass \in {PassNodes} : \A m \in NodeIdxs :
                 /\ Naming(events', "contact", m) = {} =>
                        nodes'[m + 1].assigned_information
                            = nodes[m + 1].assigned_information
                 /\ Naming(events', "attract", m) = {} =>
                        /\ pass[m + 1].growth_count = 0
                        /\ pass[m + 1].growth = Zero
                        /\ \A j \in Len(nodes)..(Len(nodes') - 1) :
                               nodes'[j + 1].parent # m]_vars

(* A step in which an attractor made contact with a node although a node
   of higher index was strictly nearer, after an eligible node of lower
   index within attract_dist had been its nearest candidate; that node got
   no child, and the nearer node no payload from it *)
C14_Witness ==
    /\ ret.op = "next"
    /\ \E k \in Contacts(events) :
           LET e == events[k]
               d(n) == sqdist(nodes[n + 1].position, e.ap.position)
           IN  /\ \E n \in NodeIdxs :
                      /\ n > e.node
                      /\ Eligible(e.ap, nodes[n + 1])
                      /\ FLt(d(n), d(e.node))
                      /\ nodes[n + 1].assigned_information # Some(e.ap.information)
               /\ \E n \in NodeIdxs :
                      /\ n < e.node
                      /\ Eligible(e.ap, nodes[n + 1])
                      /\ FLt(d(n), e.ap.attract_dist)
                      /\ Children(n) = {}
               /\ nodes[e.node + 1].assigned_information = Some(e.ap.information)

(* The eligible nodes at a squared distance of attractor ap strictly below
   its attract_dist *)
InAttractRange(ap) ==
    {n \in NodeIdxs :
        /\ Eligible(ap, nodes[n + 1])
        /\ FLt(sqdist(nodes[n + 1].position, ap.position), ap.attract_dist)}

(* strength times the unit vector from the node towards the attractor *)
Pull(ap, node) ==
    FMul(IF ap.position = node.position THEN NaN
         ELSE IF ap.position > node.position THEN 1 ELSE -1,
         ap.strength)

(* The sum of the pulls of the events ks of evs on node *)
RECURSIVE SumPulls(_, _, _)
SumPulls(evs, ks, node) ==
    IF ks = {} THEN Zero
    ELSE LET k == CHOOSE x \in ks : TRUE
         IN  FAdd(Pull(evs[k].ap, node), SumPulls(evs, ks \ {k}, node))

(* C15: an attractor scanned in a step with no eligible node strictly
   within its connect_dist pulls the eligible node of smallest squared
   distance strictly below its attract_dist, the lowest arena index among
   the nearest, and pulls no node when there is none; at the end of the
   attractor pass a node's growth_count is the number of attractors that
   pulled it and its growth the sum of their strengths times the unit
   vector towards each. *)
C15_NearestNodePulled ==
    [][next_iteration' # next_iteration =>
          /\ \A k \in 1..Len(events') :
                 LET e == events'[k]
                     d(n) == sqdist(nodes[n + 1].position, e.ap.position)
                 IN  /\ e.kind \in {"attract", "none"} =>
                            InConnectRange(e.ap) = {}
                     /\ (e.kind # "inactive" /\ InConnectRange(e.ap) = {}) =>
                            IF InAttractRange(e.ap) = {}
                                THEN e.kind = "none"
                            ELSE /\ e.kind = "attract"
                                 /\ e.node \in InAttractRange(e.ap)
                                 /\ \A n \in InAttractRange(e.ap) :
                                        \/ d(e.node) < d(n)
                                        \/ d(e.node) = d(n) /\ e.node <= n
          /\ \A pass \in {PassNodes} : \A m \in NodeIdxs :
                 LET ks == Naming(events', "attract", m)
                 IN  /\ pass[m + 1].growth_count = Cardinality(ks)
                     /\ pass[m + 1].growth
                            = SumPulls(events', ks, nodes[m + 1])]_vars

(* A step in which a node was pulled by two attractors of different
   strength, another node of higher index lying at the same distance, and
   grew one child *)
C15_Witness ==
    /\ ret.op = "next"
    /\ max_branches = 2
    /\ \E m \in NodeIdxs :
           /\ \E j, k \in Naming(events, "attract", m) :
                  events[j].ap.strength # events[k].ap.strength
           /\ \E n \in NodeIdxs :
                  /\ n > m
                  /\ n < Len(nodes) - ret.val[1]
                  /\ nodes[n + 1].position = nodes[m + 1].position
                  /\ Children(n) = {}
           /\ Cardinality(Children(m)) = 1

(* A node of a tree attractor ap must not touch *)
Excluded(ap, node) ==
    \/ ap.not_for_root = Some(node.root)
    \/ ap.not_for_connecting_root = Some(node.root)

(* C16: the node an attractor makes contact with or pulls in a step is, at
   the start of the step, below both limits and of a tree that is neither
   the attractor's not_for_root nor its not_for_connecting_root; no node's
   length or branches ever decreases; and a node that reached a limit
   stays in the arena at its index, unchanged for good: no child, no
   payload and no growth is added to it. *)
C16_InactiveAndExcludedUntouched ==
    [][/\ \A k \in 1..Len(events') :
              Acted(events'[k]) =>
                  /\ ~AtLimit(nodes[events'[k].node + 1])
                  /\ ~Excluded(events'[k].ap, nodes[events'[k].node + 1])
       /\ Len(nodes') >= Len(nodes)
       /\ \A pass \in {PassNodes} : \A i \in NodeIdxs :
              /\ nodes'[i + 1].length >= nodes[i + 1].length
              /\ nodes'[i + 1].branches >= nodes[i + 1].branches
              /\ AtLimit(nodes[i + 1]) =>
                     /\ nodes'[i + 1] = nodes[i + 1]
                     /\ pass[i + 1] = nodes[i + 1]
                     /\ \A j \in Len(nodes)..(Len(nodes') - 1) :
                            nodes'[j + 1].parent # i]_vars

(* A step in which an attractor with an excluded root acted on a node of
   another tree, passing over a node of lower index of the excluded tree,
   below both limits and strictly within its attract_dist, and in which an
   attractor acted on a node after passing over a node of lower index that
   was at a limit, of a tree it may touch and strictly within its
   attract_dist *)
C16_Witness ==
    /\ ret.op = "next"
    /\ \E k \in 1..Len(events) :
           LET e == events[k]
           IN  /\ Acted(e)
               /\ e.ap.not_for_root # None
               /\ \E n \in NodeIdxs :
                      /\ n < e.node
                      /\ Excluded(e.ap, nodes[n + 1])
                      /\ ~AtLimit(nodes[n + 1])
                      /\ FLt(sqdist(nodes[n + 1].position, e.ap.position),
                             e.ap.attract_dist)
    /\ \E k \in 1..Len(events) :
           LET e == events[k]
           IN  /\ Acted(e)
               /\ \E n \in NodeIdxs :
                      /\ n < e.node
                      /\ AtLimit(nodes[n + 1])
                      /\ ~Excluded(e.ap, nodes[n + 1])
                      /\ Naming(events, "attract", n) = {}
                      /\ FLt(sqdist(nodes[n + 1].position, e.ap.position),
                             e.ap.attract_dist)

(* The nodes a step taken now pulls: those with a positive growth_count at
   the end of its attractor pass *)
Pulled ==
    LET pass == PassNodes
    IN  {m \in NodeIdxs : pass[m + 1].growth_count > 0}

(* C17: a step adds one node for each node that ends the attractor pass
   with growth_count > 0, whether one attractor pulled it or several: the
   child names it as parent, has its root, its length plus one, no
   branches and no payload; a node with growth_count 0 gets no child; the
   nodes added in a step are not scanned and get no child in that step;
   and between steps every node has growth_count 0 and a zero growth
   accumulator. *)
C17_OneChildPerPulledNode ==
    /\ [][next_iteration' # next_iteration =>
              \A pulled \in {Pulled} :
              LET added == Len(nodes)..(Len(nodes') - 1)
              IN  /\ Len(nodes') = Len(nodes) + Cardinality(pulled)
                  /\ \A m \in pulled :
                         \E j \in added :
                             /\ nodes'[j + 1].parent = m
                             /\ nodes'[j + 1].root = nodes[m + 1].root
                             /\ nodes'[j + 1].length = nodes[m + 1].length + 1
                             /\ nodes'[j + 1].branches = 0
                             /\ nodes'[j + 1].assigned_information = None
                             /\ \A i \in added : nodes'[i + 1].parent = m => i = j
                  /\ \A j \in added : nodes'[j + 1].parent \in pulled
                  /\ \A k \in 1..Len(events') :
                         Acted(events'[k]) => events'[k].node \in NodeIdxs]_vars
    /\ [](\A i \in NodeIdxs :
              /\ nodes[i + 1].growth_count = 0
              /\ nodes[i + 1].growth = Zero)

(* A step in which one node was pulled by two attractors and got one child,
   while another node was pulled by none and got no child *)
C17_Witness ==
    /\ ret.op = "next"
    /\ ret.val = Some(1)
    /\ Len(nodes) = 3
    /\ \E m \in NodeIdxs :
           /\ Cardinality(Naming(events, "attract", m)) = 2
           /\ Children(m) = {2}
           /\ nodes[3].length = nodes[m + 1].length + 1
           /\ nodes[3].root = nodes[m + 1].root
    /\ \E n \in 0..1 :
           /\ Naming(events, "attract", n) = {}
           /\ Children(n) = {}

(* C18: a step processes every attractor that is in the collection at its
   start exactly once, in the state it had at the start of the step, also
   when contacts of KillAttractor attractors move later attractors into
   vacated slots: the attractors active in the current iteration are
   scanned, the others are passed over, and nothing else is processed. *)
C18_EachAttractorOnce ==
    [][next_iteration' # next_iteration =>
          /\ Len(events') = Len(attractors)
          /\ \A j \in 1..Len(attractors) :
                 /\ Cardinality({k \in 1..Len(events') :
                                    events'[k].ap.id = attractors[j].id}) = 1
                 /\ \E k \in 1..Len(events') :
                        /\ events'[k].ap = attractors[j]
                        /\ events'[k].kind = "inactive"
                               <=> next_iteration < attractors[j].active_from_iteration]_vars

(* A step over two attractors in which the first was killed by its contact
   and the second, moved into the vacated slot, was scanned and made a
   contact or pulled a node *)
C18_Witness ==
    /\ ret.op = "next"
    /\ Len(events) = 2
    /\ events[1].kind = "contact"
    /\ events[1].ap.connect_action = KillAttractor
    /\ events[1].ap.id \in killed
    /\ Acted(events[2])
    /\ events[2].ap.id # events[1].ap.id

(* The children node i has after the transition *)
ChildrenAfter(i) ==
    {j \in 0..(Len(nodes') - 1) : j # i /\ nodes'[j + 1].parent = i}

(* C19: in every reachable state every node has length <= max_length and
   branches <= max_branches; in one transition a node gains at most one
   child, and it gains one only in a step at whose start it was below both
   limits. *)
C19_LimitsHold ==
    /\ [](\A i \in NodeIdxs :
              /\ nodes[i + 1].length <= max_length
              /\ nodes[i + 1].branches <= max_branches)
    /\ [][\A i \in NodeIdxs :
              /\ Cardinality(ChildrenAfter(i)) <= Cardinality(Children(i)) + 1
              /\ nodes'[i + 1].branches <= nodes[i + 1].branches + 1
              /\ Cardinality(ChildrenAfter(i)) > Cardinality(Children(i)) =>
                     /\ next_iteration' # next_iteration
                     /\ ~AtLimit(nodes[i + 1])]_vars

(* A state in which one node has max_branches = 2 children and another
   node has length max_length *)
C19_Witness ==
    /\ max_branches = 2
    /\ \E i \in NodeIdxs :
           /\ nodes[i + 1].branches = max_branches
           /\ Cardinality(Children(i)) = max_branches
    /\ \E i \in NodeIdxs : nodes[i + 1].length = max_length

(* 1 + b + b^2 + ... + b^l *)
RECURSIVE Geometric(_, _)
Geometric(b, l) == IF l = 0 THEN 1 ELSE 1 + b * Geometric(b, l - 1)

(* The most nodes the trees of the roots added so far can hold *)
ArenaBound == Cardinality(roots) * Geometric(max_branches, max_length)

(* C20: the arena never holds more than (number of roots) times
   (1 + max_branches + ... + max_branches^max_length) nodes; a step that
   returns a non-zero count makes the arena longer by that count, so that
   with no further roots at most ArenaBound minus the number of roots
   steps return non-zero; and a step taken on an arena that is at the
   bound returns 0. *)
C20_ArenaBounded ==
    /\ [](Len(nodes) <= ArenaBound)
    /\ [][next_iteration' # next_iteration =>
              /\ ret'.val # Some(0) => Len(nodes') > Len(nodes)
              /\ Len(nodes) = ArenaBound =>
                     /\ ret'.val = Some(0)
                     /\ nodes' = nodes]_vars

(* A step that returned 0 on an arena of trees grown to the bound, with
   max_branches = 2 and a scanned attractor left *)
C20_Witness ==
    /\ ret.op = "next"
    /\ ret.val = Some(0)
    /\ max_branches = 2
    /\ roots # {}
    /\ Len(nodes) = ArenaBound
    /\ \E k \in 1..Len(events) : events[k].kind = "none"

====
